---- MODULE Spec2Model ----
(***************************************************************************)
(* Model of app.py, the Qforia query fan-out simulator (a Streamlit        *)
(* script).  One step of the model is one complete execution of the        *)
(* script, top to bottom, for one set of widget values.  The only state    *)
(* that survives from one execution to the next is st.session_state; the   *)
(* other variables record what the last execution did and what it showed.  *)
(* The mode is an input of every execution.                                *)
(*                                                                         *)
(* Text is a sequence of characters over a small alphabet: the two braces, *)
(* " " (white space) and "p", a well-formed list of JSON members whose     *)
(* decoded content is the payload drawn with the response (outside an      *)
(* object it is just prose).  The page chrome rendered by every execution  *)
(* (title, sidebar inputs, lines 12-14 and 59-65) is not tracked.          *)
(***************************************************************************)
EXTENDS Integers, Sequences, FiniteSets, TLC

\* ---------------------------------------------------------------- bounds
MaxLen == 3
MaxQueries == 1

\* ------------------------------------------------------- python / JSON values
None == [t |-> "none"]
PyInt(n) == [t |-> "int", v |-> n]
PyStr(s) == [t |-> "str", v |-> s]
PyList(s) == [t |-> "list", v |-> s]
PyDict(f) == [t |-> "dict", v |-> f]
EmptyDict == [k \in {} |-> None]

\* bool(x) of Python for the values above
Truthy(x) ==
    CASE x.t = "none" -> FALSE
      [] x.t = "int"  -> x.v # 0
      [] x.t = "str"  -> x.v # ""
      [] x.t = "list" -> Len(x.v) > 0
      [] x.t = "dict" -> DOMAIN x.v # {}

\* dict.get(key, default)
DictGet(d, key, default) == IF key \in DOMAIN d THEN d[key] ELSE default

\* ---------------------------------------------------------------- constants
ModeSimple == "AI Overview (simple)"
ModeComplex == "AI Mode (complex)"
Modes == {ModeSimple, ModeComplex}

min_queries_simple == 10
min_queries_complex == 20

Lit(s) == [lit |-> s]
Field(f) == [field |-> f]

PROMPT_TEMPLATE_HEADER ==
    << Lit("Simulate query fan-out. Original query: "),
       Field("q"),
       Lit(" Mode: "),
       Field("mode"),
       Lit(" First decide the number of queries. "),
       Field("num_queries_instruction"),
       Lit(" Then generate that many queries of the six types. "),
       Lit(" Return only one JSON object in this format: ") >>

JSON_STRUCTURE_EXAMPLE ==
    << "{generation_details: {target_query_count: 12, reasoning_for_count: ...},",
       " expanded_queries: [{query:, type:, user_intent:, reasoning:}]}" >>

\* str(n) for the numbers the f-strings interpolate
IntToStr(n) ==
    CASE n = 10 -> "10" [] n = 12 -> "12" [] n = 13 -> "13" [] n = 15 -> "15"
      [] n = 20 -> "20" [] n = 25 -> "25" [] n = 30 -> "30"

AT_LEAST == "At least "

\* ---------------------------------------------------------------- helpers
RECURSIVE Flatten(_)
Flatten(ss) == IF ss = << >> THEN << >> ELSE Head(ss) \o Flatten(Tail(ss))

\* str.format(**args): every replacement field is replaced by its argument,
\* inserted as it is; literal text is copied.
Format(template, args) ==
    Flatten([i \in 1..Len(template) |->
                IF "field" \in DOMAIN template[i]
                    THEN args[template[i].field]
                    ELSE << template[i].lit >>])

\* ------------------------------------------------- get_query_fanout_prompt
\* lines 89-106: the instruction of the mode; every other mode value takes
\* the else branch
num_queries_instruction(q, m) ==
    IF m = ModeSimple
    THEN << "Analyse the query: ", q, " Given the mode ", m, " decide the number. ",
            AT_LEAST, IntToStr(min_queries_simple),
            " Direct: ", IntToStr(min_queries_simple), "-", IntToStr(min_queries_simple + 2),
            " Several facets: ", IntToStr(min_queries_simple + 3), "-", IntToStr(min_queries_simple + 5),
            " Justify. Keep queries focused." >>
    ELSE << "Analyse the query: ", q, " Given the mode ", m, " decide the number. ",
            AT_LEAST, IntToStr(min_queries_complex),
            " Multi-faceted: ", IntToStr(min_queries_complex + 5), "-", IntToStr(min_queries_complex + 10),
            " or more. Justify. Make queries diverse." >>

\* variant: the instruction of the other mode is selected
get_query_fanout_prompt_OtherMode(q, m) ==
    Format(PROMPT_TEMPLATE_HEADER,
           [q |-> << q >>, mode |-> << m >>,
            num_queries_instruction |->
                num_queries_instruction(q, IF m = ModeSimple THEN ModeComplex ELSE ModeSimple)])
    \o JSON_STRUCTURE_EXAMPLE

get_query_fanout_prompt(q, m) ==
    Format(PROMPT_TEMPLATE_HEADER,
           [q |-> << q >>, mode |-> << m >>,
            num_queries_instruction |-> num_queries_instruction(q, m)])
    \o JSON_STRUCTURE_EXAMPLE

\* ------------------------------------------------------------ text helpers
Alphabet == {"{", "}", "p", " "}

Range(s) == {s[i] : i \in 1..Len(s)}

Min(S) == CHOOSE a \in S : \A b \in S : a <= b
Max(S) == CHOOSE a \in S : \A b \in S : a >= b

\* str.strip(): leading and trailing white space removed
RECURSIVE LStrip(_)
LStrip(s) == IF s # << >> /\ Head(s) = " " THEN LStrip(Tail(s)) ELSE s
RECURSIVE RStrip(_)
RStrip(s) == IF s # << >> /\ s[Len(s)] = " " THEN RStrip(SubSeq(s, 1, Len(s) - 1)) ELSE s
Strip(s) == RStrip(LStrip(s))

\* The end of the match of .*\} tried from position i: .* is greedy (and,
\* with re.DOTALL, matches every character), so it first takes the rest of
\* the text and gives characters back until a "}" follows.
\* variant: a lazy quantifier, the match ends at the first "}"
GreedyEnd_Lazy(s, i) == Min({j \in (i + 1)..Len(s) : s[j] = "}"})

GreedyEnd(s, i) == Max({j \in (i + 1)..Len(s) : s[j] = "}"})

\* re.search(r'\{.*\}', s, re.DOTALL): the start positions are tried from
\* left to right; the first one where the pattern matches wins.
ReSearch(s) ==
    LET starts == {i \in 1..Len(s) : s[i] = "{" /\ \E j \in (i + 1)..Len(s) : s[j] = "}"}
    IN  IF starts = {}
        THEN [found |-> FALSE, group |-> << >>]
        ELSE [found |-> TRUE, group |-> SubSeq(s, Min(starts), GreedyEnd(s, Min(starts)))]

\* json.loads on this alphabet: an object is "{", optional members, "}" with
\* white space allowed around every token; anything else is a decode error.
\* The members "p" decode to the payload.
JsonLoads(s, payload) ==
    LET toks == SelectSeq(s, LAMBDA c : c # " ")
    IN  IF toks = << "{", "}" >> THEN [ok |-> TRUE, data |-> EmptyDict]
        ELSE IF toks = << "{", "p", "}" >> THEN [ok |-> TRUE, data |-> payload]
        ELSE [ok |-> FALSE, data |-> EmptyDict]

\* ------------------------------------------------------------ session state
Keys == {"generation_details", "results"}

\* st.session_state.k = v
Assign(ss, k, v) == [x \in (DOMAIN ss) \cup {k} |-> IF x = k THEN v ELSE ss[x]]

\* --------------------------------------------------------- generate_fanout
\* the query texts of the model: a blank one, and one with text (like the
\* default of the text area) that also contains braces
BlankQuery == "  "
DefaultQuery == "hokkaido family trip {mode}"
Queries == {BlankQuery, DefaultQuery}

\* line 119: get_query_fanout_prompt is a pure function, tabulated here
PromptOf == [q \in Queries, m \in Modes |-> get_query_fanout_prompt(q, m)]

\* line 123: model.generate_content(prompt) is called once, inside the try;
\* no handler calls it again
\* variant: the call is repeated once
ModelCall_Retry(query, m, prompt) ==
    << [query |-> query, mode |-> m, prompt |-> prompt],
       [query |-> query, mode |-> m, prompt |-> prompt] >>

ModelCall(query, m, prompt) == << [query |-> query, mode |-> m, prompt |-> prompt] >>

\* resp is what the model does when it is called: it raises, or it returns
\* text (whose member list "p", if decoded, is resp.payload).
generate_fanout(ss, query, m, resp) ==
    LET prompt == PromptOf[query, m]
        base == [ss |-> ss, ret |-> None, msgs |-> {}, areas |-> {},
                 calls |-> ModelCall(query, m, prompt),
                 tried |-> {}, decoded |-> {}]
    IN  IF resp.raises
        THEN \* except Exception, raw_text not bound
             [base EXCEPT !.msgs = {"error_unexpected"},
                          !.ss = Assign(ss, "generation_details", None)]
        ELSE
        LET raw_text == Strip(resp.text)
            json_match == ReSearch(raw_text)
        IN  IF ~json_match.found
            THEN [base EXCEPT !.msgs = {"error_no_json"},
                              !.areas = {[label |-> "raw_response", value |-> raw_text]}]
            ELSE
            LET json_text == json_match.group
                dec == JsonLoads(json_text, resp.payload)
            IN  IF ~dec.ok
                THEN \* except json.JSONDecodeError
                     [base EXCEPT !.msgs = {"error_json_decode"},
                                  !.areas = {[label |-> "bad_json", value |-> json_text]},
                                  !.tried = {json_text},
                                  !.ss = Assign(ss, "generation_details", None)]
                ELSE
                LET data == dec.data
                    generation_details == DictGet(data, "generation_details", PyDict(EmptyDict))
                    expanded_queries == DictGet(data, "expanded_queries", PyList(<< >>))
                IN  [base EXCEPT !.tried = {json_text},
                                 !.decoded = {data},
                                 !.ss = Assign(ss, "generation_details", generation_details),
                                 !.ret = expanded_queries]

\* ---------------------------------------------------------- script sections
\* lines 162-165: the two entries are created, as None, when they are absent
\* variant: the entries are set to None by every execution
SessionInit_Reset(ss) == [k \in Keys |-> None]

SessionInit(ss) ==
    [k \in Keys |-> IF k \in DOMAIN ss THEN ss[k] ELSE None]

\* str.strip() of the query is empty
IsBlank(q) == q \in {"", "  "}

NoRun(ss) == [ss |-> ss, ret |-> None, msgs |-> {}, areas |-> {},
              calls |-> << >>, tried |-> {}, decoded |-> {}]

\* line 178: st.session_state.results = generate_fanout(...)
StoreResults(g) == [g EXCEPT !.ss = Assign(g.ss, "results", g.ret)]

\* variant: the old results are not cleared before the run
ButtonHandler_NoClear(ss, query, m, pressed, resp) ==
    IF ~pressed
    THEN NoRun(ss)
    ELSE IF IsBlank(query)
         THEN [NoRun(ss) EXCEPT !.msgs = {"warn_empty_query"}]
         ELSE StoreResults(generate_fanout(ss, query, m, resp))

\* lines 168-178
ButtonHandler(ss, query, m, pressed, resp) ==
    IF ~pressed
    THEN NoRun(ss)
    ELSE LET cleared == Assign(Assign(ss, "generation_details", None), "results", None)
         IN  IF IsBlank(query)
             THEN [NoRun(cleared) EXCEPT !.msgs = {"warn_empty_query"}]
             ELSE StoreResults(generate_fanout(cleared, query, m, resp))

Columns4 == {"query", "type", "user_intent", "reasoning"}

\* len(x) is defined
HasLen(x) == x.t \in {"list", "dict"}
PyLen(x) == IF x.t = "list" THEN Len(x.v) ELSE Cardinality(DOMAIN x.v)

\* the columns of pd.DataFrame(list of dicts): the union of the keys
DataFrameColumns(results) == UNION {DOMAIN results.v[i].v : i \in 1..Len(results.v)}

\* line 224: elif st.session_state.results is not None
\* variant: a plain else
IsEmptyResult_Else(results) == TRUE

IsEmptyResult(results) == results # None

\* lines 183-243.  An exception that nothing catches ends the script; the
\* framework shows it ("uncaught_exception") and nothing below it is drawn.
ResultDisplay(ss) ==
    LET results == ss["results"]
        details == ss["generation_details"]
        \* line 190 len(results), line 191 details.get
        planCrash == Truthy(details) /\ (~HasLen(results) \/ details.t # "dict")
        planShown == Truthy(details) /\ ~planCrash
        target_count_model == DictGet(details.v, "target_query_count", PyStr("N/A"))
        generated_count == PyLen(results)
        mismatch == planShown /\ target_count_model.t = "int"
                              /\ target_count_model.v # generated_count
        \* line 207: a dict of scalars (or a scalar) is rejected
        dfCrash == ~planCrash /\ results.t # "list"
        \* lines 209-210: df.empty is true when there is no column
        selectCrash == ~planCrash /\ ~dfCrash
                       /\ DataFrameColumns(results) # {}
                       /\ ~(Columns4 \subseteq DataFrameColumns(results))
        crashed == planCrash \/ dfCrash \/ selectCrash
        shown == {"success"}
                 \cup (IF planShown THEN {"plan"} ELSE {})
                 \cup (IF mismatch THEN {"warn_mismatch"} ELSE {})
                 \cup (IF ~planCrash THEN {"results_header"} ELSE {})
                 \cup (IF ~crashed THEN {"table", "download"} ELSE {"uncaught_exception"})
        tail == (IF results = None /\ details = None THEN {"welcome"} ELSE {}) \cup {"footer"}
    IN  IF Truthy(results)
        THEN [msgs |-> shown \cup (IF crashed THEN {} ELSE tail),
              warn |-> IF mismatch THEN {<< target_count_model.v, generated_count >>} ELSE {}]
        ELSE IF IsEmptyResult(results)
        THEN [msgs |-> {"warn_no_queries"} \cup tail, warn |-> {}]
        ELSE [msgs |-> tail, warn |-> {}]

\* the display section runs on what the button handler left
AddDisplay(h, d) == [h EXCEPT !.msgs = h.msgs \cup d.msgs] @@ [warn |-> d.warn]
ThenDisplay(h) == AddDisplay(h, ResultDisplay(h.ss))

\* variant: the entries are created before the key is looked at
ScriptRun_InitFirst(ss, key, query, m, pressed, configure_raises, resp) ==
    IF key = ""
    THEN [NoRun(SessionInit(ss)) EXCEPT !.msgs = {"info_enter_key"}] @@ [warn |-> {}]
    ELSE IF configure_raises
    THEN [NoRun(SessionInit(ss)) EXCEPT !.msgs = {"error_api_key"}] @@ [warn |-> {}]
    ELSE ThenDisplay(ButtonHandler(SessionInit(ss), query, m, pressed, resp))

\* One execution of the script.  lines 68-80: without a key, or when the
\* configuration raises, st.stop() ends the execution there.
ScriptRun(ss, key, query, m, pressed, configure_raises, resp) ==
    IF key = ""
    THEN [NoRun(ss) EXCEPT !.msgs = {"info_enter_key"}] @@ [warn |-> {}]
    ELSE IF configure_raises
    THEN [NoRun(ss) EXCEPT !.msgs = {"error_api_key"}] @@ [warn |-> {}]
    ELSE ThenDisplay(ButtonHandler(SessionInit(ss), query, m, pressed, resp))

\* ------------------------------------------------------------------ inputs
ApiKeys == {"", "key"}

SeqsUpTo(S, n) == UNION {[1..k -> S] : k \in 0..n}

Texts == SeqsUpTo(Alphabet, MaxLen)

TargetCounts == {1, 2}

\* what the model can put under "generation_details" ({} = key absent)
GenerationDetailsChoices ==
    { {}, {None}, {PyStr("n/a")},
      {PyDict([reasoning_for_count |-> PyStr("why")])} }
    \cup { {PyDict([target_query_count |-> PyInt(n), reasoning_for_count |-> PyStr("why")])}
           : n \in TargetCounts }

RecordShapes == { Columns4, Columns4 \ {"reasoning"} }
QueryRecord(shape) == PyDict([f \in shape |-> PyStr("text")])

\* what the model can put under "expanded_queries" ({} = key absent)
ExpandedQueriesChoices ==
    { {}, {None}, {PyDict([query |-> PyStr("text")])} }
    \cup { {PyList(s)} : s \in SeqsUpTo({QueryRecord(sh) : sh \in RecordShapes}, MaxQueries) }

MkPayload(g, e) ==
    [k \in (IF g = {} THEN {} ELSE {"generation_details"})
           \cup (IF e = {} THEN {} ELSE {"expanded_queries"})
        |-> IF k = "generation_details" THEN CHOOSE x \in g : TRUE
                                        ELSE CHOOSE x \in e : TRUE]

Payloads == {MkPayload(g, e) : g \in GenerationDetailsChoices, e \in ExpandedQueriesChoices}

\* the members "p" of the text are what gets decoded
UsesPayload(text) ==
    LET m == ReSearch(Strip(text))
    IN  m.found /\ "p" \in Range(m.group) /\ JsonLoads(m.group, EmptyDict).ok

NoResponse == [raises |-> FALSE, text |-> << >>, payload |-> EmptyDict]

Responses ==
    {[raises |-> TRUE, text |-> << >>, payload |-> EmptyDict]}
    \cup UNION { {[raises |-> FALSE, text |-> t, payload |-> p]
                    : p \in (IF UsesPayload(t) THEN Payloads ELSE {EmptyDict})}
                 : t \in Texts }

\* ------------------------------------------------------------------- state
VARIABLES
    gemini_key,      \* sidebar: API key of this execution
    user_query,      \* sidebar: query text of this execution
    pressed,         \* the run button was pressed for this execution
    session_state,   \* st.session_state: entry name -> value
    shown,           \* the messages and elements this execution displayed
    areas,           \* the text areas this execution displayed, with content
    warn,            \* the (target, actual) pair named by the mismatch warning
    calls,           \* the model calls of this execution, in order: the
                     \* arguments of generate_fanout and the prompt sent
    tried,           \* the texts this execution handed to json.loads
    decoded,         \* the objects json.loads returned in this execution
    given,           \* interpreter runs: the response the model gave
    outcome          \* interpreter runs: what the execution did with it

vars == << gemini_key, user_query, pressed, session_state,
           shown, areas, warn, calls, tried, decoded, given, outcome >>

Init ==
    /\ gemini_key = ""
    /\ user_query = DefaultQuery
    /\ pressed = FALSE
    /\ session_state = EmptyDict
    /\ shown = {}
    /\ areas = {}
    /\ warn = {}
    /\ calls = << >>
    /\ tried = {}
    /\ decoded = {}
    /\ given = NoResponse
    /\ outcome = NoRun(EmptyDict) @@ [warn |-> {}]

Execute(key, query, m, btn, configure_raises, resp) ==
    \E r \in {ScriptRun(session_state, key, query, m, btn, configure_raises, resp)} :
        /\ gemini_key' = key
        /\ user_query' = query
        /\ pressed' = btn
        /\ session_state' = r.ss
        /\ shown' = r.msgs
        /\ areas' = r.areas
        /\ warn' = r.warn
        /\ calls' = r.calls
        /\ tried' = r.tried
        /\ decoded' = r.decoded
        /\ UNCHANGED << given, outcome >>

\* an execution with no API key entered
HaltNoCredential ==
    \E q \in Queries, m \in Modes, b \in BOOLEAN :
        Execute("", q, m, b, FALSE, NoResponse)

\* an execution in which configuring the client raises
HaltConfigureFailed ==
    \E k \in ApiKeys \ {""}, q \in Queries, m \in Modes, b \in BOOLEAN :
        Execute(k, q, m, b, TRUE, NoResponse)

\* an execution caused by a widget change, the run button not pressed
Rerun ==
    \E k \in ApiKeys \ {""}, q \in Queries, m \in Modes :
        Execute(k, q, m, FALSE, FALSE, NoResponse)

\* the run button pressed with a blank query
RunBlankQuery ==
    \E k \in ApiKeys \ {""}, q \in {x \in Queries : IsBlank(x)}, m \in Modes :
        Execute(k, q, m, TRUE, FALSE, NoResponse)

\* the run button pressed with a query: the model is called
RunFanout ==
    \E k \in ApiKeys \ {""}, q \in {x \in Queries : ~IsBlank(x)}, m \in Modes, resp \in Responses :
        Execute(k, q, m, TRUE, FALSE, resp)

Next ==
    \/ HaltNoCredential
    \/ HaltConfigureFailed
    \/ Rerun
    \/ RunBlankQuery
    \/ RunFanout

Spec == Init /\ [][Next]_vars

\* A holder left by an earlier successful run
StaleHolder ==
    [generation_details |-> PyDict([target_query_count |-> PyInt(1), reasoning_for_count |-> PyStr("why")]),
     results |-> PyList(<< QueryRecord(Columns4) >>)]

\* The response interpreter on every response: one button-triggered
\* execution, started from a holder with earlier results, for each response
\* the model can give.
InterpretResponse ==
    \E resp \in Responses :
        /\ given' = resp
        /\ outcome' = ScriptRun(StaleHolder, "key", DefaultQuery, ModeSimple, TRUE, FALSE, resp)
        /\ UNCHANGED << gemini_key, user_query, pressed, session_state,
                        shown, areas, warn, calls, tried, decoded >>

SpecParse == Init /\ [][InterpretResponse]_vars

\* ================================================================ properties
ParseErrors == {"error_no_json", "error_json_decode"}
RunErrors == ParseErrors \cup {"error_unexpected"}
AllErrors == RunErrors \cup {"uncaught_exception"}

\* the client was set up: a key was entered and configuring it did not raise
Configured == gemini_key # "" /\ "error_api_key" \notin shown

ClearedHolder == [generation_details |-> None, results |-> None]

\* the value the holder gives for an entry; an entry not created yet has none
Held(ss, k) == IF k \in DOMAIN ss THEN ss[k] ELSE None

\* d declares an integer target count
DeclaresTarget(d) ==
    /\ "generation_details" \in DOMAIN d
    /\ d["generation_details"].t = "dict"
    /\ "target_query_count" \in DOMAIN d["generation_details"].v
    /\ d["generation_details"].v["target_query_count"].t = "int"

\* d carries a list under expanded_queries
HasQueryList(d) ==
    /\ "expanded_queries" \in DOMAIN d
    /\ d["expanded_queries"].t = "list"

\* C1: a button-triggered run that ends in an error (no JSON region, JSON
\* decode failure, any other exception of the model call) leaves results =
\* None and generation_details = None in the holder, whatever it held before.
C1_FailedRunClearsHolder ==
    (pressed /\ shown \cap RunErrors # {}) => session_state = ClearedHolder

\* a failed run whose generate_fanout did not itself reset the details
C1_Witness ==
    pressed /\ "error_no_json" \in shown /\ session_state = ClearedHolder

\* C2 (as claimed): whenever the decoded object declares an integer target T
\* and carries a list of N queries with T # N (N = 0 included), the holder
\* keeps T and the N entries and the mismatch warning naming T and N is shown.
C2_MismatchSurfaced ==
    \A d \in decoded :
        (DeclaresTarget(d) /\ HasQueryList(d)
         /\ d["generation_details"].v["target_query_count"].v # Len(d["expanded_queries"].v))
        => /\ session_state["generation_details"] = d["generation_details"]
           /\ session_state["results"] = d["expanded_queries"]
           /\ "warn_mismatch" \in shown
           /\ warn = {<< d["generation_details"].v["target_query_count"].v,
                         Len(d["expanded_queries"].v) >>}

\* C3 (as claimed): whenever the decoded object carries a non-empty list of
\* query records, the execution completes and the table is shown, whatever
\* fields the records carry.
C3_DisplayToleratesMissingFields ==
    \A d \in decoded :
        (HasQueryList(d) /\ Len(d["expanded_queries"].v) > 0)
        => ("table" \in shown /\ "uncaught_exception" \notin shown)

\* C4: an object with an empty expanded_queries array and well-formed
\* generation_details is stored as results = [] (not None) and shown as the
\* 'no queries produced' warning with no error; after a parse failure, and
\* as long as results is None, that warning is not shown.
C4_EmptyListDistinctFromFailure ==
    /\ \A d \in decoded :
          (DeclaresTarget(d) /\ HasQueryList(d) /\ d["expanded_queries"].v = << >>)
          => /\ session_state["results"] = PyList(<< >>)
             /\ session_state["results"] # None
             /\ "warn_no_queries" \in shown
             /\ shown \cap AllErrors = {}
    /\ (shown \cap ParseErrors # {})
          => (session_state["results"] = None /\ "warn_no_queries" \notin shown)
    /\ ("results" \in DOMAIN session_state /\ session_state["results"] = None)
          => "warn_no_queries" \notin shown

C4_Witness ==
    /\ \E d \in decoded : DeclaresTarget(d) /\ HasQueryList(d) /\ d["expanded_queries"].v = << >>
    /\ "warn_no_queries" \in shown

\* C5 (as claimed): with a credential configured, every press of the run
\* button calls the model exactly once.
C5_OncePerPress ==
    (Configured /\ pressed) => Len(calls) = 1

\* C5 (amended): with a credential configured, a press of the run button
\* with a query that is not blank calls the model exactly once, with the
\* prompt built from the query and the mode, also when the run ends in an
\* error; a press with a blank query calls it zero times.
C5_OncePerPressWithQuery ==
    (Configured /\ pressed)
    => IF IsBlank(user_query)
       THEN calls = << >>
       ELSE /\ Len(calls) = 1
            /\ calls[1].query = user_query
            /\ calls[1].prompt = get_query_fanout_prompt(user_query, calls[1].mode)

\* a run that ended in an error and called the model once
C5_Witness ==
    Configured /\ pressed /\ shown \cap RunErrors # {} /\ Len(calls) = 1

\* C6 (as claimed): every button-triggered run with a non-empty query shows
\* the result table, the 'no queries produced' warning, or an error message.
C6_NoSilentOutcome ==
    (Configured /\ pressed /\ ~IsBlank(user_query))
    => \/ "table" \in shown
       \/ "warn_no_queries" \in shown
       \/ shown \cap AllErrors # {}

C8_NoCredentialNoEffect ==
    [][ gemini_key' = ""
        => /\ session_state' = session_state
           /\ calls' = << >>
           /\ tried' = {} /\ decoded' = {}
           /\ shown' = {"info_enter_key"}
           /\ areas' = {} /\ warn' = {} ]_vars

\* the key was removed after a run had stored results
C8_Witness ==
    /\ gemini_key = ""
    /\ shown = {"info_enter_key"}
    /\ "results" \in DOMAIN session_state
    /\ session_state["results"] # None

\* C9: for every query and each of the two modes, the prompt contains the
\* query text as it is, states the minimum of the given mode (10 for simple,
\* 20 for complex) and not the other one as the minimum, and ends with the
\* JSON example.
C9_PromptContent ==
    \A i \in 1..Len(calls) :
        LET c == calls[i]
            pr == c.prompt
            n == Len(pr)
            k == Len(JSON_STRUCTURE_EXAMPLE)
            own == IF c.mode = ModeSimple THEN "10" ELSE "20"
        IN  /\ c.mode \in Modes
            /\ \E j \in 1..n : pr[j] = c.query
            /\ \E j \in 1..(n - 1) : pr[j] = AT_LEAST /\ pr[j + 1] = own
            /\ \A j \in 1..(n - 1) : pr[j] = AT_LEAST => pr[j + 1] = own
            /\ n >= k /\ SubSeq(pr, n - k + 1, n) = JSON_STRUCTURE_EXAMPLE

\* a prompt for the complex mode and a query that contains braces
C9_Witness ==
    /\ Len(calls) = 1
    /\ calls[1].mode = ModeComplex
    /\ calls[1].query = DefaultQuery

\* C10: an execution with the credential configured and the button not
\* pressed calls the model zero times and leaves the value of results and of
\* generation_details as it was, so what the display section derives from
\* them is shown again; an execution with the button pressed and a blank
\* query leaves the holder at (None, None) without calling the model.
StoredOutcome == {"success", "plan", "warn_mismatch", "table", "download", "warn_no_queries"}

====
